---- MODULE Spec2Model ----
(***************************************************************************)
(* Model of src/main.rs: the PolkaVM export metadata emitter.              *)
(*                                                                         *)
(* Text is modelled as sequences of bytes (Rust &str / String are UTF-8    *)
(* byte strings).  The LLVM module is a record of the values created       *)
(* through the llvm-sys calls; an LLVMValueRef is the index of the value   *)
(* in the module's list of functions or globals.                           *)
(***************************************************************************)
EXTENDS Integers, Sequences, FiniteSets, TLC

(***************************************************************************)
(* Bounds of the model.                                                    *)
(***************************************************************************)
\* how many add_function / add_polkavm_metadata calls one build makes
MaxExports == 2
\* how many distinct 64-bit values the hasher is allowed to return
NumHashVals == 2

(***************************************************************************)
(* String literals of the source, as bytes.                                *)
(***************************************************************************)
\* "_ZN"
S_ZN == <<95,90,78>>
\* "17h"
S_17h == <<49,55,104>>
\* "E"
S_E == <<69>>
\* "8METADATA17h"
S_8METADATA17h == <<56,77,69,84,65,68,65,84,65,49,55,104>>
\* "METADATA"
S_METADATA == <<77,69,84,65,68,65,84,65>>
\* "::"
S_ColonColon == <<58,58>>
\* "alloc_"
S_alloc == <<97,108,108,111,99,95>>
\* ".rodata..Lalloc_"
S_rodata_Lalloc == <<46,114,111,100,97,116,97,46,46,76,97,108,108,111,99,95>>
\* ".text.polkavm_export."
S_text_polkavm_export == <<46,116,101,120,116,46,112,111,108,107,97,118,109,95,101,120,112,111,114,116,46>>
\* ".polkavm_metadata"
S_polkavm_metadata == <<46,112,111,108,107,97,118,109,95,109,101,116,97,100,97,116,97>>
\* ".pushsection .polkavm_exports,\"R\",@note\n.byte 1\n.4byte "
S_asm_head == <<46,112,117,115,104,115,101,99,116,105,111,110,32,46,112,111,108,107,97,118,109,95,101,120,112,111,114,116,115,44,34,82,34,44,64,110,111,116,101,10,46,98,121,116,101,32,49,10,46,52,98,121,116,101,32>>
\* "\n.4byte "
S_asm_mid == <<10,46,52,98,121,116,101,32>>
\* "\n.popsection\n"
S_asm_tail == <<10,46,112,111,112,115,101,99,116,105,111,110,10>>
\* "my_module"
S_my_module == <<109,121,95,109,111,100,117,108,101>>
\* "sum"
S_sum == <<115,117,109>>
\* "sub"
S_sub == <<115,117,98>>
\* "0"
S_0 == <<48>>
\* "1010101010"
S_1010101010 == <<49,48,49,48,49,48,49,48,49,48>>
\* "a\0": a name with an interior NUL byte
S_a_nul == <<97,0>>

(***************************************************************************)
(* Formatting.                                                             *)
(***************************************************************************)
RECURSIVE Decimal(_)
\* format!("{}", n) for an unsigned integer: its decimal digits
Decimal(n) ==
    IF n < 10 THEN <<48 + n>> ELSE Decimal(n \div 10) \o <<48 + (n % 10)>>

\* one lowercase hexadecimal digit (hex::encode uses "0123456789abcdef")
HexDigit(d) == IF d < 10 THEN 48 + d ELSE 87 + d

RECURSIVE HexEncode(_)
\* hex::encode: two lowercase hex digits per byte, in order
HexEncode(bytes) ==
    IF bytes = <<>> THEN <<>>
    ELSE <<HexDigit(Head(bytes) \div 16), HexDigit(Head(bytes) % 16)>>
             \o HexEncode(Tail(bytes))

\* u64::to_be_bytes.  A u64 is held as four 16-bit limbs, most significant
\* first (TLC's integers are 32 bits wide).
ToBeBytesU64(h) ==
    <<h[1] \div 256, h[1] % 256, h[2] \div 256, h[2] % 256,
      h[3] \div 256, h[3] % 256, h[4] \div 256, h[4] % 256>>

\* (n as u32).to_le_bytes(): the four low bytes of n, least significant
\* first; taking four bytes is the truncation of `as u32`.
ToLeBytesU32(n) ==
    <<n % 256, (n \div 256) % 256, (n \div 65536) % 256, (n \div 16777216) % 256>>

\* CString::new(s) fails (and .unwrap() panics) on an interior NUL byte
HasNul(s) == \E i \in 1..Len(s) : s[i] = 0

(***************************************************************************)
(* The hasher.  std's DefaultHasher is deterministic (DefaultHasher::new() *)
(* has fixed keys) but its algorithm is left unspecified by the standard   *)
(* library, so the model keeps, in the variable hasher, the value it has   *)
(* returned for each string hashed so far and lets the value of a string   *)
(* hashed for the first time be any of HashVals.                           *)
(***************************************************************************)
\* the i-th candidate 64-bit value of the hasher, as four 16-bit limbs
HashVal(i) == <<(40503 * i) % 65536, (2654 * i + 7) % 65536, (i * i * 911) % 65536, (65521 * i) % 65536>>

HashVals == {HashVal(i) : i \in 1..NumHashVals}

\* the table after s has been hashed with outcome h (h is used only when s
\* is hashed for the first time)
Hashed(H, s, h) == IF s \in DOMAIN H THEN H ELSE H @@ (s :> h)

\* the values the hasher has returned so far
Returned(H) == {H[s] : s \in DOMAIN H}

\* the outcome h is admissible for s: the recorded value for a string seen
\* before; for a new string, a value returned before (a collision) or the
\* next candidate not yet returned (the candidates are interchangeable, so
\* which unused one is taken is immaterial)
Admissible(H, s, h) ==
    IF s \in DOMAIN H THEN h = H[s]
    ELSE \/ h \in Returned(H)
         \/ /\ Cardinality(Returned(H)) < NumHashVals
            /\ h = HashVal(Cardinality(Returned(H)) + 1)

\* mutant: the hash is rendered from its little-endian bytes
hash_string_le(H, s) ==
    LET be == ToBeBytesU64(H[s])
    IN  HexEncode([k \in 1..8 |-> be[9 - k]])

\* hash_string: hex of the big-endian bytes of hasher.finish()
hash_string(H, s) == HexEncode(ToBeBytesU64(H[s]))

(***************************************************************************)
(* The LLVM module, as far as main.rs drives it.                           *)
(***************************************************************************)
\* the names in the module's symbol table (functions and globals share it)
SymbolNames(mod) ==
    {mod.functions[i].name : i \in 1..Len(mod.functions)}
        \cup {mod.globals[i].name : i \in 1..Len(mod.globals)}

RECURSIVE MakeUniqueName(_, _, _)
\* LLVM's ValueSymbolTable: a global value whose name is taken is renamed
\* to name + "." + the next value of the table's counter
MakeUniqueName(taken, name, last) ==
    LET cand == name \o <<46>> \o Decimal(last + 1)
    IN  IF cand \notin taken THEN [name |-> cand, last |-> last + 1]
        ELSE MakeUniqueName(taken, name, last + 1)

\* the name a new global value gets, and the counter afterwards
InsertName(mod, name) ==
    IF name \notin SymbolNames(mod) THEN [name |-> name, last |-> mod.last_unique]
    ELSE MakeUniqueName(SymbolNames(mod), name, mod.last_unique)

\* LLVMAddFunction, then LLVMSetSection and LLVMSetLinkage on the new function
LLVMAddFunction(mod, name, section, linkage) ==
    LET ins == InsertName(mod, name)
    IN  [mod EXCEPT
            !.functions = Append(@, [name |-> ins.name, section |-> section,
                                     linkage |-> linkage, body |-> <<>>]),
            !.last_unique = ins.last]

\* mutant: a global whose name is taken is not added; the existing global
\* of that name gets the new type, initializer and attributes
LLVMAddGlobal_reuse(mod, name, ty, init, section, linkage, unnamed_addr) ==
    LET new == [name |-> name, ty |-> ty, init |-> init,
                section |-> section, linkage |-> linkage,
                unnamed_addr |-> unnamed_addr, align |-> 1, constant |-> TRUE]
    IN  IF \E g \in 1..Len(mod.globals) : mod.globals[g].name = name
        THEN [mod EXCEPT !.globals =
                [g \in 1..Len(mod.globals) |->
                    IF mod.globals[g].name = name THEN new ELSE mod.globals[g]]]
        ELSE [mod EXCEPT !.globals = Append(@, new)]

\* LLVMAddGlobal, then LLVMSetInitializer / Linkage / UnnamedAddress /
\* Alignment / GlobalConstant / Section on the new global
LLVMAddGlobal(mod, name, ty, init, section, linkage, unnamed_addr) ==
    LET ins == InsertName(mod, name)
    IN  [mod EXCEPT
            !.globals = Append(@, [name |-> ins.name, ty |-> ty, init |-> init,
                                   section |-> section, linkage |-> linkage,
                                   unnamed_addr |-> unnamed_addr,
                                   align |-> 1, constant |-> TRUE]),
            !.last_unique = ins.last]

\* a constant array of i8
ConstBytes(bytes) == [kind |-> "bytes", bytes |-> bytes, ref |-> 0]
\* LLVMConstPointerCast(global, ptr): a reference to the global itself
ConstPointerCast(gid) == [kind |-> "ptr", bytes |-> <<>>, ref |-> gid]
\* [n x i8]
ArrayTy(n) == [kind |-> "array", len |-> n]
\* ptr
PtrTy == [kind |-> "ptr", len |-> 0]

\* mutant: the flag is ignored and the string is NUL-terminated
LLVMConstString_terminated(text, dont_null_terminate) ==
    ConstBytes(text \o <<0>>)

\* LLVMConstStringInContext2(ctx, text, len, DontNullTerminate)
LLVMConstString(text, dont_null_terminate) ==
    ConstBytes(IF dont_null_terminate THEN text ELSE text \o <<0>>)

(***************************************************************************)
(* Symbol mangling.                                                        *)
(***************************************************************************)
\* mutant: module_name is formatted in the place of fn_name
Mangled_module_twice(module_name, fn_name, hash) ==
    S_ZN \o Decimal(Len(module_name)) \o module_name
         \o Decimal(Len(module_name)) \o module_name \o S_17h \o hash \o S_E

\* add_function: format!("_ZN{}{}{}{}17h{}E", module_name.len(), module_name,
\*                       fn_name.len(), fn_name, hash)
Mangled(module_name, fn_name, hash) ==
    S_ZN \o Decimal(Len(module_name)) \o module_name
         \o Decimal(Len(fn_name)) \o fn_name \o S_17h \o hash \o S_E

\* mutant: the function name is left out of the metadata symbol
MetadataMangled_no_fn(module_name, fn_name, hash) ==
    S_ZN \o Decimal(Len(module_name)) \o module_name
         \o S_8METADATA17h \o hash \o S_E

\* add_polkavm_metadata: format!("_ZN{}{}{}{}8METADATA17h{}E", ...)
MetadataMangled(module_name, fn_name, hash) ==
    S_ZN \o Decimal(Len(module_name)) \o module_name
         \o Decimal(Len(fn_name)) \o fn_name \o S_8METADATA17h \o hash \o S_E

\* the string hashed for the function symbol: format!("{}::{}", ...)
HashInput(module_name, fn_name) == module_name \o S_ColonColon \o fn_name

\* mutant: the name length is written in host order of a big-endian host
Field0_be(fn_name) ==
    LET le == ToLeBytesU32(Len(fn_name))
    IN  <<1>> \o <<0, 0, 0, 0>> \o <<le[4], le[3], le[2], le[1]>>

\* field 0 of the metadata struct: version, four flag bytes, name length
Field0(fn_name) == <<1>> \o <<0, 0, 0, 0>> \o ToLeBytesU32(Len(fn_name))

\* field 2 of the metadata struct: [num_args as u64, 1] as i8 constants
Field2(num_args) == <<num_args % 256, 1>>

\* mutant: the new text is put in front of the buffer
push_str_front(a, s) == s \o a

\* String::push_str
push_str(a, s) == a \o s

\* the directive block pushed onto asm for one export
DirectiveBlock(metadata_sym, mangled_fn_name) ==
    S_asm_head \o metadata_sym \o S_asm_mid \o mangled_fn_name \o S_asm_tail

(***************************************************************************)
(* add_polkavm_metadata, as a function of the state it reads and writes.   *)
(* H is the hasher's table, already holding fn_name and "METADATA".        *)
(***************************************************************************)
add_polkavm_metadata(mod, a, H, module_name, fn_name, mangled_fn_name, num_args) ==
    LET hashed == hash_string(H, fn_name)
        \* the name blob: { [len x i8] } holding the bytes of fn_name
        mod1 == LLVMAddGlobal(mod, S_alloc \o hashed,
                              <<ArrayTy(Len(fn_name))>>,
                              <<LLVMConstString(fn_name, TRUE)>>,
                              S_rodata_Lalloc \o hashed, "private", "global")
        metadata_global == Len(mod1.globals)
        \* the packed metadata struct <{ [9 x i8], ptr, [2 x i8] }>
        mangled == MetadataMangled(module_name, fn_name, hash_string(H, S_METADATA))
        mod2 == LLVMAddGlobal(mod1, mangled,
                              <<ArrayTy(9), PtrTy, ArrayTy(2)>>,
                              <<ConstBytes(Field0(fn_name)),
                                ConstPointerCast(metadata_global),
                                ConstBytes(Field2(num_args))>>,
                              S_polkavm_metadata, "internal", "none")
    IN  [module |-> mod2,
         asm |-> push_str(a, DirectiveBlock(mangled, mangled_fn_name)),
         blob |-> metadata_global,
         metadata |-> Len(mod2.globals),
         metadata_sym |-> mangled]

(***************************************************************************)
(* State.                                                                  *)
(***************************************************************************)
VARIABLES
    pc,         \* where main is
    module,     \* the LLVM module under construction
    asm,        \* main's `asm` String, the directive buffer
    hasher,     \* what the hasher has returned so far: string -> u64
    ir_str,     \* the result of LLVMPrintModuleToString, <<>> before
    stdout,     \* what has been printed
    output_ll,  \* the contents of output.ll
    calls       \* history: one record per completed registration

vars == <<pc, module, asm, hasher, ir_str, stdout, output_ll, calls>>

\* the (module_name, fn_name) pairs a build may register.  main registers
\* ("my_module", "sum") and ("my_module", "sub"); the others are names that
\* begin with digits and a name with an interior NUL.
Corpus ==
    { <<S_my_module, S_sum>>, <<S_my_module, S_sub>>,
      <<S_0, S_1010101010>>, <<S_1010101010, S_0>>,
      <<S_my_module, S_a_nul>> }

\* values of num_args (a u8) tried on direct calls of add_polkavm_metadata
ArgCounts == {0, 2, 255}

\* LLVMModuleCreateWithNameInContext: an empty module.  last_unique is the
\* symbol table's renaming counter; asm_sets counts the calls of
\* LLVMSetModuleInlineAsm2 on the module.
EmptyModule ==
    [functions |-> <<>>, globals |-> <<>>, inline_asm |-> <<>>,
     last_unique |-> 0, asm_sets |-> 0]

Init ==
    /\ pc = "declare"
    /\ module = EmptyModule
    /\ asm = <<>>
    /\ hasher = << >>
    /\ ir_str = <<>>
    /\ stdout = <<>>
    /\ output_ll = <<>>
    /\ calls = <<>>

\* the history record of one registration
CallRecord(module_name, fn_name, num_args, mangled_fn_name, function, r, from) ==
    [module_name |-> module_name, fn_name |-> fn_name, num_args |-> num_args,
     mangled_fn_name |-> mangled_fn_name, function |-> function,
     blob |-> r.blob, metadata |-> r.metadata, metadata_sym |-> r.metadata_sym,
     asm_from |-> from, asm_to |-> Len(r.asm)]

(***************************************************************************)
(* add_function (lines 70-119), called from main.                          *)
(***************************************************************************)
add_function(module_name, fn_name) ==
    /\ pc = "declare"
    /\ Len(calls) < MaxExports
    /\ ~HasNul(module_name) /\ ~HasNul(fn_name)
    /\ \E h1, h2, h3 \in HashVals :
        LET s1 == HashInput(module_name, fn_name)
            H1 == Hashed(hasher, s1, h1)
            H2 == Hashed(H1, fn_name, h2)
            H3 == Hashed(H2, S_METADATA, h3)
            mangled == Mangled(module_name, fn_name, hash_string(H3, s1))
            mod1 == LLVMAddFunction(module, mangled,
                                    S_text_polkavm_export \o fn_name, "internal")
            function == Len(mod1.functions)
            r == add_polkavm_metadata(mod1, asm, H3, module_name, fn_name,
                                      mangled, 2)
        IN  /\ Admissible(hasher, s1, h1)
            /\ Admissible(H1, fn_name, h2)
            /\ Admissible(H2, S_METADATA, h3)
            /\ hasher' = H3
            /\ module' = r.module
            /\ asm' = r.asm
            /\ calls' = Append(calls, CallRecord(module_name, fn_name, 2, mangled,
                                                 function, r, Len(asm)))
    /\ pc' = "body"
    /\ UNCHANGED <<ir_str, stdout, output_ll>>

\* add_function with a name holding a NUL byte: CString::new(mangled).unwrap()
\* (line 95) panics before anything is added to the module
add_function_panic(module_name, fn_name) ==
    /\ pc = "declare"
    /\ Len(calls) < MaxExports
    /\ HasNul(module_name) \/ HasNul(fn_name)
    /\ \E h1 \in HashVals :
        /\ Admissible(hasher, HashInput(module_name, fn_name), h1)
        /\ hasher' = Hashed(hasher, HashInput(module_name, fn_name), h1)
    /\ pc' = "panicked"
    /\ UNCHANGED <<module, asm, ir_str, stdout, output_ll, calls>>

\* main, lines 35-41 and 44-50: the body of the function just declared
\* (an add for the first function, a sub for the later ones) and its ret
BuildBody ==
    /\ pc = "body"
    /\ module' = [module EXCEPT
                    !.functions[calls[Len(calls)].function].body =
                        <<IF Len(calls) = 1 THEN "add" ELSE "sub", "ret">>]
    /\ pc' = "declare"
    /\ UNCHANGED <<asm, hasher, ir_str, stdout, output_ll, calls>>

\* mutant: the buffer is handed to the module before the exports are
\* registered, and main goes on registering
SetModuleInlineAsm_first ==
    /\ pc = "declare"
    /\ module.asm_sets = 0
    /\ module' = [module EXCEPT !.inline_asm = asm, !.asm_sets = @ + 1]
    /\ pc' = "declare"
    /\ UNCHANGED <<asm, hasher, ir_str, stdout, output_ll, calls>>

\* LLVMSetModuleInlineAsm2 (line 52): the module's inline assembly becomes
\* the buffer, with a newline added when it does not end in one
SetModuleInlineAsm ==
    /\ pc = "declare"
    /\ module' = [module EXCEPT
                    !.inline_asm = IF asm # <<>> /\ asm[Len(asm)] # 10
                                   THEN asm \o <<10>> ELSE asm,
                    !.asm_sets = @ + 1]
    /\ pc' = "asm_set"
    /\ UNCHANGED <<asm, hasher, ir_str, stdout, output_ll, calls>>

\* LLVMPrintModuleToString and println! (lines 54-56); the text of the IR
\* is represented by the module it prints
PrintModule ==
    /\ pc = "asm_set"
    /\ ir_str' = <<module>>
    /\ stdout' = <<module>>
    /\ pc' = "printed"
    /\ UNCHANGED <<module, asm, hasher, output_ll, calls>>

\* File::create("output.ll").write_all (lines 57-60), then the disposal of
\* the message, the builder, the module and the context (lines 61-66)
WriteFile ==
    /\ pc = "printed"
    /\ output_ll' = ir_str
    /\ pc' = "done"
    /\ UNCHANGED <<module, asm, hasher, ir_str, stdout, calls>>

(***************************************************************************)
(* add_polkavm_metadata (lines 121-216) called directly, with any num_args *)
(* and with the symbol the caller passes for the function.                 *)
(***************************************************************************)
\* how many direct calls of add_polkavm_metadata one run makes
MaxMetaCalls == 2

\* the function names of the direct calls, all exports of "my_module"
MetaNames == {S_sum, S_sub, S_0, S_1010101010}

MetaInit ==
    /\ pc = "encode"
    /\ module = EmptyModule
    /\ asm = <<>>
    /\ hasher = << >>
    /\ ir_str = <<>>
    /\ stdout = <<>>
    /\ output_ll = <<>>
    /\ calls = <<>>

MetaCall(module_name, fn_name, mangled_fn_name, num_args) ==
    /\ pc = "encode"
    /\ Len(calls) < MaxMetaCalls
    /\ ~HasNul(fn_name)
    /\ \E h2, h3 \in HashVals :
        LET H2 == Hashed(hasher, fn_name, h2)
            H3 == Hashed(H2, S_METADATA, h3)
            r == add_polkavm_metadata(module, asm, H3, module_name, fn_name,
                                      mangled_fn_name, num_args)
        IN  /\ Admissible(hasher, fn_name, h2)
            /\ Admissible(H2, S_METADATA, h3)
            /\ hasher' = H3
            /\ module' = r.module
            /\ asm' = r.asm
            /\ calls' = Append(calls, CallRecord(module_name, fn_name, num_args,
                                                 mangled_fn_name, 0, r, Len(asm)))
    /\ UNCHANGED <<pc, ir_str, stdout, output_ll>>

MetaNext ==
    \E fn_name \in MetaNames, num_args \in ArgCounts :
        MetaCall(S_my_module, fn_name, fn_name, num_args)

SpecMeta == MetaInit /\ [][MetaNext]_vars

Next ==
    \/ \E e \in Corpus : add_function(e[1], e[2])
    \/ \E e \in Corpus : add_function_panic(e[1], e[2])
    \/ BuildBody
    \/ SetModuleInlineAsm
    \/ PrintModule
    \/ WriteFile

Spec == Init /\ [][Next]_vars

(***************************************************************************)
(* Reading the emitted records back.                                       *)
(***************************************************************************)
\* a little-endian u32 read from four bytes
DecodeLeU32(b) == b[1] + 256 * b[2] + 65536 * b[3] + 16777216 * b[4]

\* the indices, in module.globals, of the extended metadata records: the
\* globals placed in section .polkavm_metadata
MetadataRecords == {g \in 1..Len(module.globals) :
                        module.globals[g].section = S_polkavm_metadata}

\* the registration that emitted metadata record g
CallOf(g) == CHOOSE i \in 1..Len(calls) : calls[i].metadata = g

\* the fields of metadata record g
RecordField0(g) == module.globals[g].init[1].bytes
RecordPointer(g) == module.globals[g].init[2]
RecordField2(g) == module.globals[g].init[3].bytes
\* the name blob global the symbol_pointer of record g refers to
NameBlob(g) == module.globals[RecordPointer(g).ref]

IsByte(b) == b \in 0..255

(***************************************************************************)
(* C1: in every reachable code object each extended metadata record has    *)
(* name_len (bytes 6..9 of field 0, little-endian) equal to the byte       *)
(* length of the export's source_name, equal to the length of the name     *)
(* blob its symbol_pointer refers to, whose bytes are exactly the bytes    *)
(* of source_name, with no terminator.                                     *)
(***************************************************************************)
C1_NameLenMatchesBlob ==
    \A g \in MetadataRecords :
        /\ \E i \in 1..Len(calls) : calls[i].metadata = g
        /\ LET c == calls[CallOf(g)]
               name_len == DecodeLeU32(SubSeq(RecordField0(g), 6, 9))
           IN  /\ Len(RecordField0(g)) = 9
               /\ name_len = Len(c.fn_name)
               /\ RecordPointer(g).kind = "ptr"
               /\ RecordPointer(g).ref \in 1..Len(module.globals)
               /\ RecordPointer(g).ref = c.blob
               /\ NameBlob(g).init[1].bytes = c.fn_name
               /\ Len(NameBlob(g).init[1].bytes) = name_len
               /\ NameBlob(g).ty = <<ArrayTy(name_len)>>

\* two records exist, one of a 10-byte name and one of a 1-byte name, each
\* pointing at its own blob
C1_Witness ==
    \E g1, g2 \in MetadataRecords :
        /\ g1 # g2
        /\ DecodeLeU32(SubSeq(RecordField0(g1), 6, 9)) = 10
        /\ NameBlob(g1).init[1].bytes = S_1010101010
        /\ DecodeLeU32(SubSeq(RecordField0(g2), 6, 9)) = 1
        /\ NameBlob(g2).init[1].bytes = S_0

(***************************************************************************)
(* C2: for every export (fn_name, num_args) passed to add_polkavm_metadata *)
(* the metadata struct is, in order, 9 bytes (version 1, four flag bytes   *)
(* 0, the length of fn_name as a little-endian u32), a pointer field, and  *)
(* the two bytes [num_args, 1]; for "sum" with 2 arguments the bytes begin *)
(* 01 00 00 00 00 03 00 00 00 and end 02 01.                               *)
(***************************************************************************)
C2_StructLayout ==
    \A g \in MetadataRecords :
        /\ \E i \in 1..Len(calls) : calls[i].metadata = g
        /\ LET c == calls[CallOf(g)]
               f0 == RecordField0(g)
               f2 == RecordField2(g)
           IN  /\ module.globals[g].ty = <<ArrayTy(9), PtrTy, ArrayTy(2)>>
               /\ Len(module.globals[g].init) = 3
               /\ Len(f0) = 9
               /\ \A k \in 1..9 : IsByte(f0[k])
               /\ f0[1] = 1
               /\ \A k \in 2..5 : f0[k] = 0
               /\ f0[6] + 256 * f0[7] + 65536 * f0[8] + 16777216 * f0[9]
                    = Len(c.fn_name)
               /\ RecordPointer(g).kind = "ptr"
               /\ f2 = <<c.num_args, 1>>
               /\ (c.fn_name = S_sum /\ c.num_args = 2) =>
                    /\ f0 = <<1, 0, 0, 0, 0, 3, 0, 0, 0>>
                    /\ f2 = <<2, 1>>

\* "sum" has been encoded with 2 arguments and another export with 255
C2_Witness ==
    /\ \E g \in MetadataRecords :
        /\ calls[CallOf(g)].fn_name = S_sum
        /\ calls[CallOf(g)].module_name = S_my_module
        /\ calls[CallOf(g)].num_args = 2
        /\ RecordField0(g) = <<1, 0, 0, 0, 0, 3, 0, 0, 0>>
    /\ \E g \in MetadataRecords :
        /\ calls[CallOf(g)].num_args = 255
        /\ RecordField2(g) = <<255, 1>>

(***************************************************************************)
(* Reading the directive buffer back, as an assembler would: line by line. *)
(***************************************************************************)
\* ".pushsection .polkavm_exports,\"R\",@note"
L_pushsection == <<46,112,117,115,104,115,101,99,116,105,111,110,32,46,112,111,108,107,97,118,109,95,101,120,112,111,114,116,115,44,34,82,34,44,64,110,111,116,101>>
\* ".byte 1"
L_byte_1 == <<46,98,121,116,101,32,49>>
\* ".4byte "
L_4byte == <<46,52,98,121,116,101,32>>
\* ".popsection"
L_popsection == <<46,112,111,112,115,101,99,116,105,111,110>>

RECURSIVE LineEnd(_, _)
\* the position of the first newline of text at or after position i, 0 when
\* there is none
LineEnd(text, i) ==
    IF i > Len(text) THEN 0
    ELSE IF text[i] = 10 THEN i
    ELSE LineEnd(text, i + 1)

\* text holds lit at position i
HasAt(text, i, lit) ==
    i + Len(lit) - 1 <= Len(text) /\ SubSeq(text, i, i + Len(lit) - 1) = lit

StartsWith(s, prefix) == HasAt(s, 1, prefix)

\* what is read where no directive block can be read
Malformed == [ok |-> FALSE, metadata_ref |-> <<>>, function_ref |-> <<>>]

RECURSIVE ReadBlocks(_, _)
\* the directive blocks of text from position i on: for each block the
\* lines .pushsection, .byte 1, .4byte <symbol>, .4byte <symbol>,
\* .popsection; reading stops with Malformed at the first deviation
ReadBlocks(text, i) ==
    IF i > Len(text) THEN <<>>
    ELSE
      LET head == L_pushsection \o <<10>> \o L_byte_1 \o <<10>> \o L_4byte
          s1 == i + Len(head)
          e1 == LineEnd(text, s1)
          s2 == e1 + 1 + Len(L_4byte)
          e2 == LineEnd(text, s2)
          tail == L_popsection \o <<10>>
      IN  IF /\ HasAt(text, i, head)
             /\ e1 > 0
             /\ HasAt(text, e1 + 1, L_4byte)
             /\ e2 > 0
             /\ HasAt(text, e2 + 1, tail)
          THEN <<[ok |-> TRUE,
                  metadata_ref |-> SubSeq(text, s1, e1 - 1),
                  function_ref |-> SubSeq(text, s2, e2 - 1)]>>
                  \o ReadBlocks(text, e2 + 1 + Len(tail))
          ELSE <<Malformed>>

\* the blocks of text, in order
Blocks(text) == ReadBlocks(text, 1)

\* the directive buffer has been handed to the module
Attached == module.asm_sets > 0

SamePair(c, d) == c.module_name = d.module_name /\ c.fn_name = d.fn_name

(***************************************************************************)
(* C3: registering exports f1, ..., fn in that order and finalizing yields *)
(* export table entries in exactly that order: in the buffer handed to the *)
(* module the block of fi precedes the block of fj whenever i < j.         *)
(***************************************************************************)
C3_TableOrder ==
    Attached =>
        LET B == Blocks(module.inline_asm)
        IN
        /\ \A b \in 1..Len(B) : B[b].ok
        /\ Len(B) = Len(calls)
        /\ \A i \in 1..Len(calls) :
            /\ B[i].function_ref = calls[i].mangled_fn_name
            /\ B[i].metadata_ref = calls[i].metadata_sym
            /\ SubSeq(module.inline_asm, calls[i].asm_from + 1, calls[i].asm_to)
                 = DirectiveBlock(calls[i].metadata_sym, calls[i].mangled_fn_name)
        /\ \A i, j \in 1..Len(calls) : i < j => calls[i].asm_to <= calls[j].asm_from

\* "sum" then "sub" were registered, the buffer was attached, and their
\* blocks differ
C3_Witness ==
    /\ Attached
    /\ Len(calls) = 2
    /\ calls[1].fn_name = S_sum /\ calls[2].fn_name = S_sub
    /\ Blocks(module.inline_asm)[1] # Blocks(module.inline_asm)[2]

(***************************************************************************)
(* C4: registering the same function symbol twice (a second add_function   *)
(* call with the same module name and function name on the same code       *)
(* object) is rejected and leaves the export table unchanged: the table    *)
(* holds no second entry for that mangled symbol.                          *)
(***************************************************************************)
C4_DuplicateRejected ==
    LET B == Blocks(asm)
    IN
    /\ \A b \in 1..Len(B) : B[b].ok
    /\ \A i, j \in 1..Len(B) :
        (i < j /\ j <= Len(calls) /\ SamePair(calls[i], calls[j]))
            => B[i].function_ref # B[j].function_ref

(***************************************************************************)
(* C9: after any sequence of add_function calls the directive buffer holds *)
(* exactly one push/pop-delimited block per registered export, and each    *)
(* block consists of a version byte 1, a 4-byte reference to the metadata  *)
(* symbol of that export and a 4-byte reference to the function symbol of  *)
(* the same export, which is exactly the symbol under which the export's   *)
(* function was declared in the module.                                    *)
(***************************************************************************)
C9_BlockPerExport ==
    LET B == Blocks(asm)
    IN
    /\ \A b \in 1..Len(B) : B[b].ok
    /\ Len(B) = Len(calls)
    /\ \A i \in 1..Len(calls) :
        /\ B[i].metadata_ref = module.globals[calls[i].metadata].name
        /\ B[i].function_ref = module.functions[calls[i].function].name

(***************************************************************************)
(* C10: the metadata symbol of an export is "_ZN" + len(module_name) +     *)
(* module_name + len(fn_name) + fn_name + "8METADATA17h" + H + "E" with H  *)
(* the hash of the literal "METADATA", the same for every export; so, for  *)
(* exports of one module, two metadata symbols are equal if and only if    *)
(* the two function names are equal, and the directive block of an export  *)
(* never references the metadata symbol of a different export of that      *)
(* module.                                                                 *)
(***************************************************************************)
C10_MetadataSymbols ==
    LET B == Blocks(asm)
    IN
    /\ \A b \in 1..Len(B) : B[b].ok
    /\ Len(B) = Len(calls)
    /\ \A i \in 1..Len(calls) :
        LET c == calls[i]
            sym == B[i].metadata_ref
            n == Len(sym)
        IN  /\ n >= 17
            /\ sym = S_ZN \o Decimal(Len(c.module_name)) \o c.module_name
                          \o Decimal(Len(c.fn_name)) \o c.fn_name
                          \o S_8METADATA17h \o SubSeq(sym, n - 16, n - 1) \o S_E
            /\ SubSeq(sym, n - 16, n - 1) = HexEncode(ToBeBytesU64(hasher[S_METADATA]))
    /\ \A i, j \in 1..Len(calls) :
        calls[i].module_name = calls[j].module_name =>
            /\ (B[i].metadata_ref = B[j].metadata_ref)
                    <=> (calls[i].fn_name = calls[j].fn_name)
            /\ calls[i].fn_name # calls[j].fn_name =>
                    B[i].metadata_ref # module.globals[calls[j].metadata].name

\* two exports of one module with different names, one of them beginning
\* with a digit, have been encoded
C10_Witness ==
    \E i, j \in 1..Len(calls) :
        /\ calls[i].module_name = calls[j].module_name
        /\ calls[i].fn_name = S_1010101010
        /\ calls[j].fn_name = S_sum
        /\ Blocks(asm)[i].metadata_ref # Blocks(asm)[j].metadata_ref

(***************************************************************************)
(* Reading a symbol's hash suffix back.                                    *)
(***************************************************************************)
\* the ASCII codes of the lowercase hexadecimal digits
LowerHex == (48..57) \cup (97..102)

\* the value of one lowercase hexadecimal digit
HexValue(ch) == IF ch \in 48..57 THEN ch - 48 ELSE ch - 87

\* sixteen hexadecimal digits read as a u64 (four 16-bit limbs)
DecodeHexU64(hex) ==
    [k \in 1..4 |-> 4096 * HexValue(hex[4 * k - 3]) + 256 * HexValue(hex[4 * k - 2])
                      + 16 * HexValue(hex[4 * k - 1]) + HexValue(hex[4 * k])]

\* the function symbol the i-th directive block references
FunctionRef(i) == Blocks(asm)[i].function_ref

\* the symbol's 16 characters before the final "E"
HashSuffix(sym) == SubSeq(sym, Len(sym) - 16, Len(sym) - 1)

IsDigit(ch) == ch \in 48..57

\* the name is empty or begins with something other than a decimal digit
NoLeadingDigit(s) == s = <<>> \/ ~IsDigit(s[1])

(***************************************************************************)
(* C5: the mangled function symbol computed in add_function is a pure      *)
(* function of (module_name, fn_name): it is "_ZN" + len(module_name) +    *)
(* module_name + len(fn_name) + fn_name + "17h" + H + "E", H being the 16  *)
(* lowercase hex characters of the 64-bit hash of "module_name::fn_name";  *)
(* it depends neither on how many exports were registered before nor on    *)
(* their order, so two calls with identical inputs yield an identical      *)
(* string.                                                                 *)
(***************************************************************************)
C5_MangledPure ==
    LET B == Blocks(asm)
    IN
    /\ \A b \in 1..Len(B) : B[b].ok
    /\ Len(B) = Len(calls)
    /\ \A i \in 1..Len(calls) :
        LET c == calls[i]
            sym == B[i].function_ref
        IN  /\ Len(sym) >= 17
            /\ sym = <<95, 90, 78>> \o Decimal(Len(c.module_name)) \o c.module_name
                        \o Decimal(Len(c.fn_name)) \o c.fn_name
                        \o <<49, 55, 104>> \o HashSuffix(sym) \o <<69>>
            /\ \A k \in 1..16 : HashSuffix(sym)[k] \in LowerHex
            /\ DecodeHexU64(HashSuffix(sym))
                 = hasher[c.module_name \o <<58, 58>> \o c.fn_name]
    /\ \A i, j \in 1..Len(calls) :
        SamePair(calls[i], calls[j]) => B[i].function_ref = B[j].function_ref

\* the same (module_name, fn_name) was registered as the first and as the
\* second export
C5_Witness ==
    /\ Len(calls) = 2
    /\ SamePair(calls[1], calls[2])
    /\ calls[1].fn_name = S_sum
    /\ FunctionRef(1) = FunctionRef(2)

(***************************************************************************)
(* C6, as claimed: for any two exports with distinct (module_name,         *)
(* source_name) pairs the mangled function symbols differ, for all names   *)
(* over an alphabet that includes digits, whatever the (deterministic)     *)
(* hash.                                                                   *)
(***************************************************************************)
C6_DistinctSymbols ==
    \A i, j \in 1..Len(calls) :
        ~SamePair(calls[i], calls[j]) =>
            calls[i].mangled_fn_name # calls[j].mangled_fn_name

(***************************************************************************)
(* C6, amended: for two exports with distinct (module_name, source_name)   *)
(* pairs the mangled function symbols differ whenever the hashes of their  *)
(* "module_name::fn_name" strings differ, or none of the four names begins *)
(* with a decimal digit.                                                   *)
(***************************************************************************)
C6_DistinctUnlessAmbiguous ==
    \A i, j \in 1..Len(calls) :
        LET c == calls[i]
            d == calls[j]
        IN  (/\ ~SamePair(c, d)
             /\ \/ hasher[HashInput(c.module_name, c.fn_name)]
                     # hasher[HashInput(d.module_name, d.fn_name)]
                \/ /\ NoLeadingDigit(c.module_name) /\ NoLeadingDigit(c.fn_name)
                   /\ NoLeadingDigit(d.module_name) /\ NoLeadingDigit(d.fn_name))
            => c.mangled_fn_name # d.mangled_fn_name

\* two different exports whose names begin with letters got the same hash,
\* and their symbols differ all the same
C6_Witness ==
    \E i, j \in 1..Len(calls) :
        /\ ~SamePair(calls[i], calls[j])
        /\ NoLeadingDigit(calls[i].module_name) /\ NoLeadingDigit(calls[i].fn_name)
        /\ NoLeadingDigit(calls[j].module_name) /\ NoLeadingDigit(calls[j].fn_name)
        /\ hasher[HashInput(calls[i].module_name, calls[i].fn_name)]
             = hasher[HashInput(calls[j].module_name, calls[j].fn_name)]
        /\ calls[i].mangled_fn_name # calls[j].mangled_fn_name

(***************************************************************************)
(* C7: the directive buffer is attached to the module exactly once per     *)
(* build, after every export has been registered and before the module is  *)
(* serialized; no output (printed IR or output file) is produced before    *)
(* every export's function, metadata record and directive block exist, and *)
(* the buffer is not appended to after it has been attached.               *)
(***************************************************************************)
\* the module m holds the function, the two globals and, in its inline
\* assembly a, the directive block of every registration of cs
HoldsEveryExport(m, a, cs) ==
    /\ m.asm_sets = 1
    /\ m.inline_asm = a
    /\ \A i \in 1..Len(cs) :
        /\ cs[i].function \in 1..Len(m.functions)
        /\ cs[i].blob \in 1..Len(m.globals)
        /\ cs[i].metadata \in 1..Len(m.globals)
        /\ SubSeq(m.inline_asm, cs[i].asm_from + 1, cs[i].asm_to)
             = DirectiveBlock(cs[i].metadata_sym, cs[i].mangled_fn_name)

C7_AttachedOnceBeforeOutput ==
    [][/\ module'.asm_sets <= 1
       /\ module'.asm_sets >= module.asm_sets
       /\ Attached => (asm' = asm /\ calls' = calls)
       /\ (module'.asm_sets # module.asm_sets) => (stdout = <<>> /\ output_ll = <<>>)
       /\ (stdout' # <<>>) => HoldsEveryExport(stdout'[1], asm', calls')
       /\ (output_ll' # <<>>) => HoldsEveryExport(output_ll'[1], asm', calls')
       /\ (pc' = "done") => (module'.asm_sets = 1 /\ output_ll' # <<>> /\ stdout' # <<>>)
      ]_vars

\* a build of two exports has run to its end
C7_Witness ==
    /\ pc = "done"
    /\ Len(calls) = 2
    /\ output_ll # <<>>
    /\ output_ll[1].inline_asm = asm
    /\ asm # <<>>

(***************************************************************************)
(* C8: records are write-once: a call for a new export only adds globals   *)
(* and appends to the end of the directive buffer; every name blob,        *)
(* metadata struct and function declaration emitted before is unchanged,   *)
(* and the buffer before the call is a prefix of the buffer after it.      *)
(***************************************************************************)
C8_WriteOnce ==
    [][Len(calls') > Len(calls) =>
        /\ Len(module'.globals) = Len(module.globals) + 2
        /\ \A g \in 1..Len(module.globals) : module'.globals[g] = module.globals[g]
        /\ Len(module'.functions) >= Len(module.functions)
        /\ \A f \in 1..Len(module.functions) :
                module'.functions[f] = module.functions[f]
        /\ StartsWith(asm', asm)
        /\ Len(asm') > Len(asm)
      ]_vars

\* a second export has been registered after a first one with the same
\* metadata symbol
C8_Witness ==
    /\ Len(calls) = 2
    /\ calls[1].metadata_sym = calls[2].metadata_sym
    /\ ~SamePair(calls[1], calls[2])
    /\ module.globals[calls[1].metadata].init # module.globals[calls[2].metadata].init

====
